---- MODULE Spec2Model ----
(***************************************************************************)
(* The gomd markdown scanner: a producer goroutine (lexer.run) walks the   *)
(* input with a cursor (start, pos, width), driven by state functions, and *)
(* hands every token to the consumer (Lex) over the unbuffered channel     *)
(* l.items.  Two snapshots of the scanner are modelled:                    *)
(*   "block": run starts in lexBlock   (src/unnamed/part_000, 378-746)     *)
(*   "text" : run starts in lexText    (src/markdown.go, 16-370)           *)
(* The input is a sequence of bytes; a byte is written as a one-character  *)
(* string, the two bytes of U+00E9 as "C3" and "A9".                       *)
(***************************************************************************)
EXTENDS Integers, Sequences, FiniteSets, TLC

VARIABLES
  scanner,   \* "block" or "text": which snapshot's run() is executing
  input,     \* lexer.input, immutable
  l,         \* lexer cursor: [start, pos, width] and ok (FALSE after a runtime panic)
  pc,        \* the producer's position: a state function, or a run-level label
  at,        \* resumption point inside the state function pc (0 = its entry)
  ret,       \* where lexTextNewLine returns to: <<state function, resumption point>>
  cont,      \* where the producer resumes after the pending emit: <<pc, at>>
  ch,        \* l.items: tokens sent and not yet received
  closed,    \* close(l.items) has run
  emitted,   \* history: every token the producer has sent, with its source span
  cpc,       \* the consumer's position in Lex
  elem,      \* Lex: the loop variable of the range loop
  res        \* Lex: the tokens stored so far, res[0..i-1]

vars == <<scanner, input, l, pc, at, ret, cont, ch, closed, emitted, cpc, elem, res>>

----------------------------------------------------------------------------
(* Bounds of the model. *)

\* longest input built freely from Chunks
MaxChunks == 3
\* longest free tail after a structured first line
MaxTail == 1
\* longest '#' run of a structured header line
MaxHashes == 7
\* longest text of a structured line
MaxText == 2

----------------------------------------------------------------------------
(* Constants of the program. *)

eof == "eof"
RuneError == "RuneError"

br == <<"\r", "\n">>
hardBr == <<" ", " ">> \o br
ul0 == <<"-">>
ul1 == <<"+">>
ul2 == <<"*">>
ol == <<"1", ".">>
atxHeader == <<"#">>
setTextHeader1 == <<"=">>
setTextHeader2 == <<"-">>

\* The bytes the model's inputs are made of.  "<" stands for the characters
\* that are neither alphanumeric nor in inlineChars.
Bytes == {"a", "1", ".", " ", "\r", "\n", "#", "-", "*", "+", "=", "<", "C3", "A9"}

\* inlineChars, restricted to the runes of the model's inputs
inlineChars == {"a", "1", ".", "#", "-", "*", " "}

\* make(chan item): the capacity of l.items
ChanCap == 0

\* make([]item, 200): the length of the result buffer of Lex
ResLen == 200

----------------------------------------------------------------------------
(* Strings and runes. *)

RECURSIVE Rep(_, _)
Rep(s, n) == IF n <= 0 THEN <<>> ELSE s \o Rep(s, n - 1)

\* input[a:b]; the caller checks SliceOK first
Slice(a, b) == SubSeq(input, a + 1, b)

\* whether the slice expression input[a:b] is in range
SliceOK(a, b) == 0 <= a /\ a <= b /\ b <= Len(input)

\* strings.HasPrefix(l.input[p:], d)
hp(p, d) ==
  /\ 0 <= p /\ p + Len(d) <= Len(input)
  /\ SubSeq(input, p + 1, p + Len(d)) = d

\* utf8.DecodeRuneInString(l.input[p:]) for p < len(l.input)
DecodeRuneInString(p) ==
  LET b == input[p + 1] IN
  IF b = "C3" /\ p + 2 <= Len(input) /\ input[p + 2] = "A9"
    THEN [r |-> "U+00E9", w |-> 2]
  ELSE IF b \in {"C3", "A9"}
    THEN [r |-> RuneError, w |-> 1]
  ELSE [r |-> b, w |-> 1]

isAlphaNumeric(r) == r \in {"a", "1", "U+00E9"}

----------------------------------------------------------------------------
(* The cursor primitives.  Each takes and returns a lexer L.  A lexer with *)
(* ok = FALSE has raised a runtime panic; the primitives leave it alone.   *)

panic(L) == [L EXCEPT !.ok = FALSE]

\* The record of what the cursor has been through, kept with every change
\* of pos: lo and hi are the least and the greatest pos so far, gap is the
\* least pos - start so far.
Seen(L) ==
  [L EXCEPT !.lo  = IF L.pos < L.lo THEN L.pos ELSE L.lo,
            !.hi  = IF L.pos > L.hi THEN L.pos ELSE L.hi,
            !.gap = IF L.pos - L.start < L.gap THEN L.pos - L.start ELSE L.gap]

\* next without the check for the end of the input: there it returns eof
\* and moves pos by the width of the rune read before
nextNoEndCheck(L) ==
  IF ~L.ok THEN [l |-> L, r |-> eof]
  ELSE IF L.pos >= Len(input)
    THEN [l |-> Seen([L EXCEPT !.pos = L.pos + L.width]), r |-> eof]
  ELSE IF L.pos < 0 THEN [l |-> panic(L), r |-> eof]
  ELSE LET d == DecodeRuneInString(L.pos) IN
       [l |-> Seen([L EXCEPT !.width = d.w, !.pos = L.pos + d.w]), r |-> d.r]

next(L) ==
  IF ~L.ok THEN [l |-> L, r |-> eof]
  ELSE IF L.pos >= Len(input) THEN [l |-> [L EXCEPT !.width = 0], r |-> eof]
  ELSE IF L.pos < 0 THEN [l |-> panic(L), r |-> eof]
  ELSE LET d == DecodeRuneInString(L.pos) IN
       [l |-> Seen([L EXCEPT !.width = d.w, !.pos = L.pos + d.w]), r |-> d.r]

RECURSIVE nextNTimes(_, _)
nextNTimes(L, n) == IF n <= 0 THEN L ELSE nextNTimes(next(L).l, n - 1)

\* ignore setting start one rune short of pos
ignoreOneShort(L) == IF L.ok THEN [L EXCEPT !.start = L.pos - L.width] ELSE L

ignore(L) == IF L.ok THEN [L EXCEPT !.start = L.pos] ELSE L

ignoreNext(L, n) == ignore(nextNTimes(L, n))

backup(L) == IF L.ok THEN Seen([L EXCEPT !.pos = L.pos - L.width]) ELSE L

backupNSpaces(L, n) ==
  IF L.ok THEN Seen([L EXCEPT !.pos = L.pos - n * L.width]) ELSE L

peek(L) == LET x == next(L) IN [l |-> backup(x.l), r |-> x.r]

\* valid is the set of runes of the string argument
accept(L, valid) ==
  LET x == next(L) IN
  IF x.r \in valid THEN [l |-> x.l, ok |-> TRUE]
  ELSE [l |-> backup(x.l), ok |-> FALSE]

RECURSIVE acceptRunFrom(_, _, _)
acceptRunFrom(L, valid, n) ==
  LET x == next(L) IN
  IF x.r \in valid THEN acceptRunFrom(x.l, valid, n + 1)
  ELSE [l |-> backup(x.l), n |-> n]

acceptRun(L, valid) == acceptRunFrom(L, valid, 0)

\* markdown.go's acceptUntilNewLine: stops at "\r\n" or at the end of input
RECURSIVE acceptUntilNewLine(_)
acceptUntilNewLine(L) ==
  IF ~L.ok \/ ~SliceOK(L.pos, Len(input)) THEN panic(L)
  ELSE IF hp(L.pos, br) THEN L
  ELSE LET p == peek(L) IN
       IF p.r = eof THEN p.l ELSE acceptUntilNewLine(next(p.l).l)

----------------------------------------------------------------------------
(* What a stretch of a state function, run from one suspension point to    *)
(* the next, asks of run(): go on at another point, call lexTextNewLine,   *)
(* send a token (emit, errorf).                                            *)

Item(t, v) == [typ |-> t, val |-> v]

goto(L, p, a) == [op |-> "goto", l |-> L, pc |-> p, at |-> a]

call(L, k) == [op |-> "call", l |-> L, ret |-> k]

emit(L, t, k) == [op |-> "emit", l |-> L, t |-> t, k |-> k]

errorf(L, msg) == [op |-> "errorf", l |-> L, msg |-> msg]

\* HeaderTyp with the case of six '#' mapped like the case of five
HeaderTypSixAsFive(n) ==
  CASE n = 1 -> "itemH1"
    [] n = 2 -> "itemH2"
    [] n = 3 -> "itemH3"
    [] n = 4 -> "itemH4"
    [] n = 5 -> "itemH5"
    [] n = 6 -> "itemH5"
    [] n = 0 -> "itemError"
    [] OTHER -> "itemH6"

\* HeaderTyp with a run of more than six '#' treated as an error
HeaderTypStrict(n) ==
  CASE n = 1 -> "itemH1"
    [] n = 2 -> "itemH2"
    [] n = 3 -> "itemH3"
    [] n = 4 -> "itemH4"
    [] n = 5 -> "itemH5"
    [] n = 6 -> "itemH6"
    [] OTHER -> "itemError"

\* HeaderTyp switching on the count less one, as if n were counted from 0
HeaderTypCountsFromZero(n) ==
  CASE n = 2 -> "itemH1"
    [] n = 3 -> "itemH2"
    [] n = 4 -> "itemH3"
    [] n = 5 -> "itemH4"
    [] n = 6 -> "itemH5"
    [] n = 7 -> "itemH6"
    [] n = 1 -> "itemError"
    [] OTHER -> "itemH6"

\* the switch on n of lexAtxHeader
HeaderTyp(n) ==
  CASE n = 1 -> "itemH1"
    [] n = 2 -> "itemH2"
    [] n = 3 -> "itemH3"
    [] n = 4 -> "itemH4"
    [] n = 5 -> "itemH5"
    [] n = 6 -> "itemH6"
    [] n = 0 -> "itemError"
    [] OTHER -> "itemH6"

----------------------------------------------------------------------------
(* The state functions of the lexBlock-based scanner.                      *)

lexBlock(L, a) ==
  CASE a = 0 ->
         IF ~SliceOK(L.pos, Len(input)) THEN goto(panic(L), "lexBlock", 0)
         ELSE IF hp(L.pos, hardBr)
           THEN emit(nextNTimes(L, Len(hardBr)), "itemHardNewLine", <<"lexBlock", 0>>)
         ELSE IF hp(L.pos, ul0) \/ hp(L.pos, ul1) \/ hp(L.pos, ul2)
           THEN goto(L, "lexUl_block", 0)
         ELSE LET p == peek(L) IN
           IF isAlphaNumeric(p.r) THEN goto(p.l, "lexNewParagraph", 0)
           ELSE IF hp(L.pos, atxHeader) THEN goto(p.l, "lexAtxHeader_block", 0)
           ELSE IF p.l.pos > Len(input)
             THEN IF p.l.pos > p.l.start
                    THEN emit(p.l, "itemParagraph", <<"lexBlock", 1>>)
                    ELSE emit(p.l, "itemEOF", <<"lexBlock", 2>>)
           ELSE goto(p.l, "lexBlock", 0)
    [] a = 1 -> emit(L, "itemEOF", <<"lexBlock", 2>>)
    [] OTHER -> goto(L, "nil", 0)

\* lexNewParagraph and lexParagraphContinued: lexParagraph with its typ
ParagraphTyp(fn) ==
  IF fn = "lexNewParagraph" THEN "itemParagraph" ELSE "itemParagraphContinued"

lexParagraph(L, a, fn) ==
  CASE a = 0 ->
         LET x1 == accept(L, {"="})
             x2 == accept(x1.l, {"-"})
         IN IF x1.ok THEN goto(x1.l, "lexSetTextHeader", 0)
            ELSE IF x2.ok THEN goto(x2.l, "lexSetTextHeader", 0)
            ELSE goto(x2.l, fn, 1)
    [] a = 1 ->
         LET r == acceptRun(L, inlineChars) IN
         IF r.n # 0 THEN goto(r.l, fn, 1)
         ELSE IF ~SliceOK(r.l.pos - 2, Len(input)) THEN goto(panic(r.l), fn, 1)
         ELSE IF hp(r.l.pos - 2, hardBr) THEN emit(r.l, ParagraphTyp(fn), <<fn, 2>>)
         ELSE IF hp(r.l.pos, br) THEN emit(r.l, ParagraphTyp(fn), <<fn, 4>>)
         ELSE goto(r.l, fn, 1)
    [] a = 2 -> emit(nextNTimes(L, Len(br)), "itemHardNewLine", <<fn, 3>>)
    [] a = 3 ->
         LET L1 == ignore(acceptRun(L, {" "}).l)
             x1 == accept(L1, {"="})
             x2 == accept(x1.l, {"-"})
             y  == accept(x2.l, {"\r", "\n"})
             p  == peek(y.l)
         IN IF x1.ok THEN goto(backup(x1.l), "lexSetTextHeader", 0)
            ELSE IF x2.ok THEN goto(backup(x2.l), "lexSetTextHeader", 0)
            ELSE IF y.ok THEN goto(y.l, "lexBlock", 0)
            ELSE IF isAlphaNumeric(p.r) THEN goto(p.l, "lexParagraphContinued", 0)
            ELSE goto(p.l, fn, 1)
    [] a = 4 -> emit(nextNTimes(L, Len(br)), "itemNewLine", <<fn, 5>>)
    [] a = 5 ->
         LET r == acceptRun(L, {" "})
             p == peek(r.l)
         IN IF ~SliceOK(r.l.pos, Len(input)) THEN goto(panic(r.l), fn, 5)
            ELSE IF hp(r.l.pos, br) THEN emit(r.l, ParagraphTyp(fn), <<fn, 6>>)
            ELSE IF isAlphaNumeric(p.r) THEN goto(p.l, fn, 1)
            ELSE goto(p.l, "lexBlock", 0)
    [] OTHER -> goto(ignore(nextNTimes(L, Len(br))), "lexBlock", 0)

lexSetTextHeader(L) == goto(L, "nil", 0)

lexAtxHeader_block(L, a) ==
  CASE a = 0 ->
         LET r  == acceptRun(L, {"#"})
             p  == peek(r.l)
             L1 == ignoreNext(p.l, 1)
             t  == HeaderTyp(r.n)
         IN IF p.r # " " THEN goto(p.l, "lexNewParagraph", 0)
            ELSE IF t = "itemError"
              THEN errorf(L1, "Expected \"#\" at start of ATX header")
            ELSE emit(acceptRun(ignore(L1), inlineChars).l, t, <<"lexAtxHeader_block", 1>>)
    [] OTHER ->
         IF ~SliceOK(L.pos, Len(input)) THEN goto(panic(L), "lexAtxHeader_block", 1)
         ELSE IF hp(L.pos, br) THEN goto(ignoreNext(L, Len(br)), "lexBlock", 0)
         ELSE errorf(L, "Expected newline at end of ATX header")

\* the for loop of lexUl: up to the line ending or the end of input
RECURSIVE lexUlLine(_)
lexUlLine(L) ==
  IF ~L.ok \/ ~SliceOK(L.pos, Len(input)) THEN panic(L)
  ELSE IF hp(L.pos, br) THEN L
  ELSE LET p == peek(L) IN
       IF p.r = eof THEN p.l ELSE lexUlLine(next(p.l).l)

lexUl_block(L, a) ==
  CASE a = 0 ->
         LET p == peek(next(L).l) IN
         IF p.r # " " THEN goto(p.l, "lexNewParagraph", 0)
         ELSE emit(lexUlLine(p.l), "itemUl", <<"lexUl_block", 1>>)
    [] OTHER -> goto(ignore(nextNTimes(L, Len(br))), "lexBlock", 0)

----------------------------------------------------------------------------
(* The state functions of the lexText-based scanner.                       *)

lexText(L, a) ==
  CASE a = 0 ->
         IF ~SliceOK(L.pos, Len(input)) THEN goto(panic(L), "lexText", 0)
         ELSE IF hp(L.pos, atxHeader) THEN goto(L, "lexAtxHeader_text", 0)
         ELSE IF hp(L.pos, ul0) \/ hp(L.pos, ul2) THEN goto(L, "lexHr", 0)
         ELSE IF hp(L.pos, ul1) /\ L.pos + 1 >= Len(input) THEN goto(panic(L), "lexText", 0)
         ELSE IF hp(L.pos, ul1) /\ input[L.pos + 2] = " "
           THEN goto(acceptRun(L, {" ", "+"}).l, "lexUl_text", 0)
         ELSE IF hp(L.pos, ol) /\ L.pos + 2 >= Len(input) THEN goto(panic(L), "lexText", 0)
         ELSE IF hp(L.pos, ol) /\ input[L.pos + 3] = " " THEN goto(L, "lexOl", 0)
         ELSE call(acceptUntilNewLine(L), <<"lexText", 1>>)
    [] a = 1 ->
         LET r  == acceptRun(L, {" "})
             r2 == acceptRun(r.l, {"=", "-", " "})
         IN IF ~SliceOK(r.l.pos, Len(input)) THEN goto(panic(r.l), "lexText", 0)
            ELSE IF hp(r.l.pos, setTextHeader1) \/ hp(r.l.pos, setTextHeader2)
              THEN IF ~hp(r2.l.pos, br)
                     THEN call(acceptUntilNewLine(r2.l), <<"lexText", 0>>)
                     ELSE emit(r2.l, "itemSetTextHeader", <<"lexText", 2>>)
            ELSE goto(r.l, "lexText", 0)
    [] OTHER -> emit(ignore(nextNTimes(L, Len(br))), "itemNewLine", <<"lexText", 0>>)

\* k is the point of the caller that lexTextNewLine returns to
lexTextNewLine(L, a, k) ==
  CASE a = 0 ->
         IF L.pos + Len(br) > Len(input) THEN emit(L, "itemEOF", <<"osExit", 0>>)
         ELSE IF ~SliceOK(L.pos - 2, L.pos + Len(br)) THEN goto(panic(L), "lexTextNewLine", 0)
         ELSE IF Slice(L.pos - 2, L.pos + Len(br)) = hardBr
           THEN LET L1 == backupNSpaces(L, 2) IN
                IF L1.pos > L1.start THEN emit(L1, "itemText", <<"lexTextNewLine", 1>>)
                ELSE emit(ignore(nextNTimes(L1, Len(hardBr))), "itemHardNewLine", k)
         ELSE IF L.pos > L.start THEN emit(L, "itemText", <<"lexTextNewLine", 2>>)
         ELSE emit(ignore(nextNTimes(L, Len(br))), "itemNewLine", k)
    [] a = 1 -> emit(ignore(nextNTimes(L, Len(hardBr))), "itemHardNewLine", k)
    [] OTHER -> emit(ignore(nextNTimes(L, Len(br))), "itemNewLine", k)

lexAtxHeader_text(L) ==
  LET r  == acceptRun(L, {"#"})
      p  == peek(r.l)
      r2 == acceptRun(p.l, {" "})
      t  == HeaderTyp(r.n)
  IN IF p.r # " " THEN call(acceptUntilNewLine(p.l), <<"lexText", 0>>)
     ELSE IF t = "itemError"
       THEN errorf(r2.l, "Expected \"#\" at start of ATX header")
     ELSE emit(ignore(r2.l), t, <<"lexText", 0>>)

\* the for loop of lexHr: ok when it ran up to the line ending
RECURSIVE lexHrLine(_, _)
lexHrLine(L, hrChar) ==
  IF ~L.ok \/ ~SliceOK(L.pos, Len(input)) THEN [l |-> panic(L), ok |-> FALSE]
  ELSE IF hp(L.pos, br) THEN [l |-> L, ok |-> TRUE]
  ELSE LET x == accept(L, {hrChar}) IN
       IF ~x.ok THEN [l |-> x.l, ok |-> FALSE]
       ELSE lexHrLine(acceptRun(x.l, {" "}).l, hrChar)

lexHr(L) ==
  IF ~SliceOK(L.pos, L.pos + 1) THEN goto(panic(L), "lexHr", 0)
  ELSE LET h == lexHrLine(L, input[L.pos + 1]) IN
       IF ~h.ok THEN goto(ignore(h.l), "lexUl_text", 0)
       ELSE emit(ignore(nextNTimes(h.l, Len(br))), "itemHr", <<"lexText", 0>>)

lexUl_text(L) == emit(L, "itemUl", <<"lexText", 0>>)

lexOl(L) == goto(L, "nil", 0)

----------------------------------------------------------------------------
(* The inputs.                                                             *)

Chunks ==
  {<<"a">>, <<" ">>, br, <<"#">>, <<"-">>, <<"*">>, <<"+">>, <<"=">>, <<"<">>,
   <<"C3", "A9">>, <<"1", ".">>}

\* every concatenation of at most n chunks
RECURSIVE ChunkSeqs(_)
ChunkSeqs(n) ==
  IF n <= 0 THEN {<<>>}
  ELSE LET S == ChunkSeqs(n - 1) IN S \cup {s \o c : s \in S, c \in Chunks}

\* every string of at most n bytes of B
RECURSIVE Strings(_, _)
Strings(B, n) ==
  IF n <= 0 THEN {<<>>}
  ELSE LET S == Strings(B, n - 1) IN S \cup {s \o <<b>> : s \in S, b \in B}

\* texts of a structured line: inline characters only
Texts == Strings({"a", " "}, MaxText)

\* "#...# text"
AtxLines == {Rep(<<"#">>, k) \o <<" ">> \o t : k \in 1..MaxHashes, t \in Texts}

\* a marker character repeated, with spaces in between or behind
HrLines == UNION {{<<m>> \o t : t \in Strings({m, " "}, MaxText)} : m \in {"-", "*"}}

\* "marker text", the text starting with a letter
UlLines == {<<m, " ", "a">> \o t : m \in {"-", "+", "*"}, t \in Strings({"a", " "}, MaxText - 1)}

\* what may stand before a structured line: nothing, a text line, a text
\* line and a blank line, a horizontal rule
Pres == {<<>>, <<"a", "a">> \o br, <<"a", "a">> \o br \o br, <<"*", "*">> \o br}

\* a text line ended with no, one or two trailing spaces, and what follows
TwoLines ==
  {<<"a", "a">> \o sp \o br \o t : sp \in Strings({" "}, 2), t \in ChunkSeqs(MaxTail + 1)}

\* what may follow a structured line: nothing, or one chunk
Tails == Chunks \cup {<<>>}

\* a line of letters
Words == {Rep(<<"a">>, k) : k \in 1..MaxText}

\* two lines of letters and a blank line, and what follows
Paragraphs ==
  {w1 \o br \o w2 \o br \o br \o t : w1 \in Words, w2 \in Words, t \in Tails}

\* "# text" and "## text" where the text has characters outside inlineChars
AtxOddLines ==
  {Rep(<<"#">>, k) \o <<" ">> \o t \o br : k \in 1..2, t \in Strings({"a", "<"}, MaxText)}

\* a line that starts with '=' or '-', behind a text line ended by a soft or
\* by a hard break
MarkerLines ==
  {p \o <<m>> \o t \o br :
     p \in {<<"a", "a">> \o br, <<"a", "a">> \o hardBr},
     m \in {"=", "-"},
     t \in Strings({"=", "-", " ", "a"}, MaxText)}

Inputs ==
  ChunkSeqs(MaxChunks)
  \cup TwoLines
  \cup Paragraphs
  \cup AtxOddLines
  \cup MarkerLines
  \cup {ln \o br \o t : ln \in AtxLines \cup UlLines, t \in Tails}
  \cup {p \o ln \o br \o t : p \in Pres, ln \in HrLines, t \in Tails}

----------------------------------------------------------------------------
(* The processes: the producer goroutine run(), and the consumer Lex.      *)

NoItem == Item("none", <<>>)

Init ==
  /\ scanner \in {"block", "text"}
  /\ input \in Inputs
  /\ l = [start |-> 0, pos |-> 0, width |-> 0, ok |-> TRUE,
          lo |-> 0, hi |-> 0, gap |-> 0]
  /\ pc = IF scanner = "block" THEN "lexBlock" ELSE "lexText"
  /\ at = 0
  /\ ret = <<"none", 0>>
  /\ cont = <<"none", 0>>
  /\ ch = <<>>
  /\ closed = FALSE
  /\ emitted = <<>>
  /\ cpc = "range"
  /\ elem = NoItem
  /\ res = <<>>

\* the process is running: no goroutine has panicked, os.Exit has not run
Alive == pc \notin {"panic", "exited"} /\ cpc # "panic"

\* SendDone for a send that never waits for the receiver
SendDoneAtOnce == TRUE

\* the send l.items <- x has returned: the channel holds no more than its
\* capacity, so for make(chan item) the receiver has taken x
SendDone == Len(ch) <= ChanCap

\* run() carries out what the state function asked for
Do(o) ==
  /\ Alive
  /\ UNCHANGED <<scanner, input, closed, cpc, elem, res>>
  /\ l' = IF o.op = "emit" /\ ~SliceOK(o.l.start, o.l.pos) THEN panic(o.l) ELSE o.l
  /\ IF ~l'.ok
       THEN pc' = "panic" /\ at' = 0 /\ UNCHANGED <<ret, cont, ch, emitted>>
     ELSE CASE o.op = "goto" ->
                 pc' = o.pc /\ at' = o.at /\ UNCHANGED <<ret, cont, ch, emitted>>
            [] o.op = "call" ->
                 pc' = "lexTextNewLine" /\ at' = 0 /\ ret' = o.ret
                 /\ UNCHANGED <<cont, ch, emitted>>
            [] o.op = "emit" ->
                 LET v == Slice(o.l.start, o.l.pos) IN
                 /\ ch' = Append(ch, Item(o.t, v))
                 /\ emitted' = Append(emitted,
                      [typ |-> o.t, val |-> v, start |-> o.l.start, pos |-> o.l.pos])
                 /\ pc' = "emit" /\ at' = 0 /\ cont' = o.k
                 /\ UNCHANGED ret
            [] OTHER ->
                 /\ ch' = Append(ch, Item("itemError", <<o.msg>>))
                 /\ emitted' = Append(emitted,
                      [typ |-> "itemError", val |-> <<o.msg>>, start |-> -1, pos |-> -1])
                 /\ pc' = "errorf" /\ at' = 0
                 /\ UNCHANGED <<ret, cont>>

LexBlock == pc = "lexBlock" /\ Do(lexBlock(l, at))

LexParagraph ==
  /\ pc \in {"lexNewParagraph", "lexParagraphContinued"}
  /\ Do(lexParagraph(l, at, pc))

LexSetTextHeader == pc = "lexSetTextHeader" /\ Do(lexSetTextHeader(l))

LexAtxHeaderBlock == pc = "lexAtxHeader_block" /\ Do(lexAtxHeader_block(l, at))

LexUlBlock == pc = "lexUl_block" /\ Do(lexUl_block(l, at))

LexText == pc = "lexText" /\ Do(lexText(l, at))

LexTextNewLine == pc = "lexTextNewLine" /\ Do(lexTextNewLine(l, at, ret))

LexAtxHeaderText == pc = "lexAtxHeader_text" /\ Do(lexAtxHeader_text(l))

LexHr == pc = "lexHr" /\ Do(lexHr(l))

LexUlText == pc = "lexUl_text" /\ Do(lexUl_text(l))

LexOl == pc = "lexOl" /\ Do(lexOl(l))

\* EmitReturn without l.start = l.pos
EmitReturnKeepsStart ==
  /\ Alive /\ pc = "emit" /\ SendDone
  /\ pc' = cont[1] /\ at' = cont[2]
  /\ UNCHANGED <<scanner, input, l, ret, cont, ch, closed, emitted, cpc, elem, res>>

\* emit, after the send: l.start = l.pos
EmitReturn ==
  /\ Alive /\ pc = "emit" /\ SendDone
  /\ l' = [l EXCEPT !.start = l.pos]
  /\ pc' = cont[1] /\ at' = cont[2]
  /\ UNCHANGED <<scanner, input, ret, cont, ch, closed, emitted, cpc, elem, res>>

\* ErrorfReturn handing back the running state function instead of nil
ErrorfReturnsState ==
  /\ Alive /\ pc = "errorf" /\ SendDone
  /\ pc' = cont[1] /\ at' = cont[2]
  /\ UNCHANGED <<scanner, input, l, ret, cont, ch, closed, emitted, cpc, elem, res>>

\* errorf, after the send: return nil
ErrorfReturn ==
  /\ Alive /\ pc = "errorf" /\ SendDone
  /\ pc' = "nil" /\ at' = 0
  /\ UNCHANGED <<scanner, input, l, ret, cont, ch, closed, emitted, cpc, elem, res>>

\* run: the state is nil, close(l.items)
Close ==
  /\ Alive /\ pc = "nil"
  /\ closed' = TRUE
  /\ pc' = "done"
  /\ UNCHANGED <<scanner, input, l, at, ret, cont, ch, emitted, cpc, elem, res>>

\* lexTextNewLine at the end of input: os.Exit(0) ends the process
OsExit ==
  /\ Alive /\ pc = "osExit"
  /\ pc' = "exited"
  /\ UNCHANGED <<scanner, input, l, at, ret, cont, ch, closed, emitted, cpc, elem, res>>

\* Lex: the range loop receives a token
Receive ==
  /\ Alive /\ cpc = "range" /\ ch # <<>>
  /\ elem' = Head(ch)
  /\ ch' = Tail(ch)
  /\ cpc' = "body"
  /\ UNCHANGED <<scanner, input, l, pc, at, ret, cont, closed, emitted, res>>

\* Lex: the loop body, res[i] = elem; i++
Store ==
  /\ Alive /\ cpc = "body"
  /\ IF Len(res) >= ResLen
       THEN cpc' = "panic" /\ res' = res
       ELSE cpc' = "range" /\ res' = Append(res, elem)
  /\ UNCHANGED <<scanner, input, l, pc, at, ret, cont, ch, closed, emitted, elem>>

\* Lex: the channel is closed and drained, the loop ends and Lex returns res
Return ==
  /\ Alive /\ cpc = "range" /\ ch = <<>> /\ closed
  /\ cpc' = "returned"
  /\ UNCHANGED <<scanner, input, l, pc, at, ret, cont, ch, closed, emitted, elem, res>>

\* item{}, what make([]item, 200) fills res with: typ 0, the first itemType
\* of the const block, and the empty val
ZeroItem ==
  Item(IF scanner = "block" THEN "itemParagraph" ELSE "itemText", <<>>)

\* the slice Lex returns: the tokens stored in res[0:i], and the items of
\* make([]item, 200) behind them
Returned == res \o [j \in 1..(ResLen - Len(res)) |-> ZeroItem]

Next ==
  \/ LexBlock \/ LexParagraph \/ LexSetTextHeader \/ LexAtxHeaderBlock \/ LexUlBlock
  \/ LexText \/ LexTextNewLine \/ LexAtxHeaderText \/ LexHr \/ LexUlText \/ LexOl
  \/ EmitReturn \/ ErrorfReturn \/ Close \/ OsExit
  \/ Receive \/ Store \/ Return

Spec == Init /\ [][Next]_vars

----------------------------------------------------------------------------
(* Notions the properties are stated with.                                 *)

Last(s) == s[Len(s)]

Terminal(t) == t \in {"itemEOF", "itemError"}

LineBreak(t) == t \in {"itemNewLine", "itemHardNewLine"}

\* the tokens sent so far, as the consumer sees them
Sent == [i \in 1..Len(emitted) |-> Item(emitted[i].typ, emitted[i].val)]

\* the tokens the consumer has taken from the channel so far
Received == IF cpc = "body" THEN Append(res, elem) ELSE res

\* the indices of the tokens cut from the input by emit
Spans == {i \in 1..Len(emitted) : emitted[i].typ # "itemError"}

\* the producer is at the head of a for loop whose next iteration changes
\* nothing and comes back to the head: it loops forever
Spinning ==
  \/ pc = "lexBlock" /\ at = 0 /\ lexBlock(l, 0) = goto(l, "lexBlock", 0)
  \/ /\ pc \in {"lexNewParagraph", "lexParagraphContinued"} /\ at = 1
     /\ lexParagraph(l, 1, pc) = goto(l, pc, 1)

\* C1: for every input the producer of the lexBlock-based scanner reaches the
\* nil state and closes the channel; it never spins in the for loop of
\* lexBlock or of lexParagraph with the cursor at the end of the input or in
\* front of a character no branch recognises.
C1_ProducerNeverSpins == scanner = "block" => ~Spinning

\* C2: whenever the channel has been closed, exactly one terminal token
\* (itemEOF or itemError) was sent, and it was the last token sent.
C2_ClosedAfterOneTerminal ==
  closed =>
    /\ emitted # <<>>
    /\ Terminal(Last(emitted).typ)
    /\ \A i \in 1..(Len(emitted) - 1) : ~Terminal(emitted[i].typ)

\* C3: an itemError token is the last token of the stream: nothing is sent
\* after it, and once it is delivered the producer only closes the channel.
C3_ErrorIsLast ==
  \A i \in 1..Len(emitted) :
    emitted[i].typ = "itemError" =>
      /\ i = Len(emitted)
      /\ pc \in {"errorf", "nil", "done"}

C3_Witness ==
  /\ closed
  /\ Len(emitted) >= 2
  /\ Last(emitted).typ = "itemError"
  /\ Received = Sent

\* C4: every token is handed over by rendezvous: at most one token is in
\* flight, the producer is blocked in its send while one is, and the consumer
\* has received exactly the tokens sent before it, in the order of emission.
C4_Rendezvous ==
  /\ Len(ch) <= 1
  /\ ch # <<>> => pc \in {"emit", "errorf"}
  /\ Received \o ch = Sent

C4_Witness ==
  /\ Len(res) >= 2
  /\ ch # <<>>
  /\ pc = "emit"

\* C5: tokens are emitted in source order: of two tokens sent one after the
\* other, the span of the later starts at or after the end of the earlier.
C5_SourceOrder ==
  \A i \in Spans : \A j \in Spans :
    i < j => /\ emitted[i].start <= emitted[i].pos
             /\ emitted[i].pos <= emitted[j].start

\* the rewind of lexTextNewLine has run between two tokens with text
C5_Witness ==
  /\ scanner = "text"
  /\ \E i \in 1..Len(emitted) :
       /\ i >= 2 /\ i < Len(emitted)
       /\ emitted[i].typ = "itemHardNewLine"
       /\ emitted[i - 1].typ = "itemText"
       /\ emitted[i + 1].val # <<>>

----------------------------------------------------------------------------
(* The lines of the input.                                                 *)

\* the number of bytes b in a row from offset p on
RECURSIVE CountRun(_, _)
CountRun(p, b) ==
  IF p < Len(input) /\ input[p + 1] = b THEN 1 + CountRun(p + 1, b) ELSE 0

\* the offset of the first "\r\n" at or after offset p; -1 when there is none
RECURSIVE FirstBr(_)
FirstBr(p) ==
  IF p + Len(br) > Len(input) THEN -1
  ELSE IF hp(p, br) THEN p
  ELSE FirstBr(p + 1)

\* input[a:b] is made of bytes of B only
Only(a, b, B) == \A i \in (a + 1)..b : input[i] \in B

Heading == <<"itemH1", "itemH2", "itemH3", "itemH4", "itemH5", "itemH6">>

\* the input starts with a header line: k '#', one space, inline text, "\r\n"
AtxFirstLine(k) ==
  /\ k >= 1
  /\ CountRun(0, "#") = k
  /\ hp(k, <<" ">>)
  /\ FirstBr(k + 1) >= 0
  /\ Only(k + 1, FirstBr(k + 1), inlineChars)

\* C7: lexBlock-based scanner, first line "#"*k + " " + text + "\r\n" with
\* k in 1..6 and text of inline characters: the first token is the heading of
\* level k with value text, no other token is cut from the line, and
\* lexAtxHeader returns lexBlock with the cursor just past the "\r\n".
C7_AtxHeading ==
  \A k \in 1..6 :
    scanner = "block" /\ AtxFirstLine(k) =>
      LET e == FirstBr(k + 1) IN
      /\ emitted # <<>> =>
           emitted[1] = [typ |-> Heading[k], val |-> Slice(k + 1, e),
                         start |-> k + 1, pos |-> e]
      /\ Len(emitted) >= 2 =>
           emitted[2].typ # "itemError" /\ emitted[2].start >= e + 2
      /\ pc = "lexAtxHeader_block" /\ at = 1 /\ Len(emitted) = 1 => hp(l.pos, br)
      /\ pc = "lexBlock" /\ Len(emitted) = 1 => l.pos = e + 2 /\ l.start = e + 2

C7_Witness ==
  /\ scanner = "block" /\ AtxFirstLine(5)
  /\ Len(emitted) = 1
  /\ emitted[1].typ = "itemH5" /\ emitted[1].val = <<"a", "a">>
  /\ pc = "lexBlock" /\ l.pos = 10

\* C8: lexAtxHeader clamps a run of seven or more '#' followed by a space to
\* level 6: the token of the line is itemH6, the error token of the '#' count
\* is never sent, and after a line of inline text scanning goes on in lexBlock.
C8_LongRunClamped ==
  LET k == CountRun(0, "#") IN
  scanner = "block" /\ k >= 7 /\ hp(k, <<" ">>) =>
    /\ emitted # <<>> => emitted[1].typ = "itemH6"
    /\ \A i \in 1..Len(emitted) :
         emitted[i].val # <<"Expected \"#\" at start of ATX header">>
    /\ AtxFirstLine(k) /\ pc = "lexBlock" /\ Len(emitted) = 1 =>
         l.pos = FirstBr(k + 1) + 2

C8_Witness ==
  /\ scanner = "block" /\ CountRun(0, "#") >= 7 /\ AtxFirstLine(CountRun(0, "#"))
  /\ Len(emitted) = 1 /\ emitted[1].typ = "itemH6"
  /\ pc = "lexBlock"

\* the values of the first n tokens, line-break and terminal tokens left out
RECURSIVE TextValues(_)
TextValues(n) ==
  IF n <= 0 THEN <<>>
  ELSE TextValues(n - 1) \o
       (IF LineBreak(emitted[n].typ) \/ Terminal(emitted[n].typ) THEN <<>>
        ELSE emitted[n].val)

\* the values of the first n tokens, the error token left out
RECURSIVE AllValues(_)
AllValues(n) ==
  IF n <= 0 THEN <<>>
  ELSE AllValues(n - 1) \o (IF n \in Spans THEN emitted[n].val ELSE <<>>)

\* the first n bytes of the input, without the bytes no token's span holds
RECURSIVE Kept(_)
Kept(n) ==
  IF n <= 0 THEN <<>>
  ELSE Kept(n - 1) \o
       (IF \E j \in Spans : emitted[j].start < n /\ n <= emitted[j].pos
          THEN <<input[n]>> ELSE <<>>)

\* the scan has completed: the end-of-stream token has been sent
ScanComplete == emitted # <<>> /\ Last(emitted).typ = "itemEOF"

Min(S) == CHOOSE x \in S : \A y \in S : x <= y

\* the line at offset q is one marker character, '-' or '*', repeated, with
\* spaces in between or behind, and ends with "\r\n"
HrLineAt(q) ==
  /\ hp(q, <<"-">>) \/ hp(q, <<"*">>)
  /\ FirstBr(q) >= 0
  /\ Only(q, FirstBr(q), {input[q + 1], " "})

\* the tokens whose span ends behind offset q
After(q) == {i \in Spans : emitted[i].pos > q}

\* the first token sent for the line at q is the one token of that line: an
\* itemHr sent with the line and its "\r\n" consumed and ignored
HrTokenAt(q) ==
  After(q) # {} =>
    LET t == emitted[Min(After(q))] IN
    t.typ = "itemHr" /\ t.start = FirstBr(q) + 2 /\ t.pos = FirstBr(q) + 2

\* the line in front of offset q is a blank line behind a full line
PrevLineBlank(q) ==
  q >= 2 * Len(br) + 1 /\ hp(q - Len(br), br) /\ hp(q - 2 * Len(br), br)

\* C9: lexText-based scanner: a line made of one repeated marker character
\* ('-' or '*'), with spaces in between, and ended by "\r\n" yields exactly
\* one token, an itemHr, and no itemUl or text token. Stated for the lines
\* that cannot be the underline of a setext header: the first line of the
\* input and a line behind a blank line.
C9_HrLineYieldsHr ==
  scanner = "text" =>
    \A q \in 0..Len(input) :
      (q = 0 \/ PrevLineBlank(q)) /\ HrLineAt(q) => HrTokenAt(q)

\* C10: a first line made of a list marker ('-', '+' or '*'), one space, the
\* item text and "\r\n" yields exactly one token, an itemUl whose value is
\* the item text without the marker and the space.
C10_UlValueIsItemText ==
  \A m \in {"-", "+", "*"} :
    /\ hp(0, <<m, " ", "a">>)
    /\ FirstBr(2) >= 0
    /\ Only(2, FirstBr(2), {"a", "1", " "})
    => /\ emitted # <<>> =>
            emitted[1].typ = "itemUl" /\ emitted[1].val = Slice(2, FirstBr(2))
       /\ Len(emitted) >= 2 => emitted[2].start >= FirstBr(2) + 2

\* the input starts with a line of letters, two spaces and "\r\n", and the
\* next line is a line of letters ended by "\r\n"
HardBreakLines ==
  LET e == FirstBr(0) IN
  /\ e >= 3
  /\ hp(e - 2, hardBr)
  /\ Only(0, e - 2, {"a"})
  /\ hp(e + 2, <<"a">>)
  /\ FirstBr(e + 2) >= 0
  /\ Only(e + 2, FirstBr(e + 2), {"a"})

\* C11: lexBlock-based scanner, a line of text ended by two spaces and
\* "\r\n", then a line that starts with a letter: the tokens are, in this
\* order, an itemParagraph whose value is the first line without its two
\* trailing spaces, an itemHardNewLine, and an itemParagraphContinued whose
\* value is the text of the second line.
C11_HardBreakTokens ==
  scanner = "block" /\ HardBreakLines =>
    LET e == FirstBr(0) IN
    /\ Len(emitted) >= 1 =>
         emitted[1].typ = "itemParagraph" /\ emitted[1].val = Slice(0, e - 2)
    /\ Len(emitted) >= 2 => emitted[2].typ = "itemHardNewLine"
    /\ Len(emitted) >= 3 =>
         /\ emitted[3].typ = "itemParagraphContinued"
         /\ emitted[3].val = Slice(e + 2, FirstBr(e + 2))

\* the input starts with two lines of letters, each ended by "\r\n", and a
\* blank line
SoftBreakLines ==
  LET e1 == FirstBr(0)
      e2 == FirstBr(e1 + 2)
  IN /\ e1 >= 1 /\ Only(0, e1, {"a"})
     /\ e2 > e1 + 2 /\ Only(e1 + 2, e2, {"a"})
     /\ hp(e2 + 2, br)

\* the tokens of SoftBreakLines: the text of the first line, a soft break,
\* the text of the second line; lexParagraph is left for lexBlock only with
\* the cursor behind the blank line
SoftBreakTokens ==
  LET e1 == FirstBr(0)
      e2 == FirstBr(e1 + 2)
  IN /\ Len(emitted) >= 1 =>
          emitted[1].typ = "itemParagraph" /\ emitted[1].val = Slice(0, e1)
     /\ Len(emitted) >= 2 => emitted[2].typ = "itemNewLine"
     /\ Len(emitted) >= 3 =>
          emitted[3].typ = "itemParagraph" /\ emitted[3].val = Slice(e1 + 2, e2)
     /\ pc = "lexBlock" /\ emitted # <<>> =>
          Len(emitted) >= 3 /\ l.pos >= e2 + 4 /\ l.start >= e2 + 4

\* C12: lexBlock-based scanner, two lines of text each ended by "\r\n" and
\* followed by a blank line: lexParagraph emits the text of the first line,
\* an itemNewLine, the text of the second line, and returns lexBlock with the
\* cursor just behind the "\r\n" of the blank line.
C12_SoftBreakTokens ==
  scanner = "block" /\ SoftBreakLines => pc # "panic" /\ SoftBreakTokens

\* C12 holds of every such input whose scan does not panic, that is whose
\* first line has two letters or more
C12_SoftBreakTokensUnlessPanic ==
  scanner = "block" /\ SoftBreakLines => SoftBreakTokens

\* C13: at every point of the scan 0 <= pos <= len(input): next does not
\* move pos beyond the end of the input, and no backup or backupNSpaces
\* moves it below 0.
C13_PosInBounds ==
  /\ 0 <= l.lo /\ l.lo <= l.pos
  /\ l.pos <= l.hi /\ l.hi <= Len(input)

\* the lexText-based scanner has rewound over the two spaces of a hard break
\* and has then read up to the end of the input, where next returned eof
C13_Witness ==
  /\ scanner = "text"
  /\ hp(0, <<"a", "a">> \o hardBr)
  /\ Len(emitted) >= 2 /\ emitted[1].pos = 2
  /\ l.ok /\ l.pos = Len(input) /\ l.width = 0

\* C14: at every point of the scan, between any two cursor operations, the
\* pending span has non-negative length: start <= pos; the rewind by
\* backupNSpaces(2) in lexTextNewLine does not leave pos below start.
C14_StartLePos == l.gap >= 0 /\ l.start <= l.pos

\* C15: no slice or index expression on the input goes out of range: the
\* look-behind input[pos-2:] of lexParagraph and input[pos-2:pos+2] of
\* lexTextNewLine are evaluated with pos >= 2 only, and s[1], s[2] of lexText
\* only on a remainder that is long enough; the producer does not panic.
C15_NoSliceOutOfRange == l.ok /\ pc # "panic"

\* the input starts with a run of '#' that is followed by text of the bytes
\* of B, not by a space, up to the "\r\n" of the line
HashTextFirstLine(B) ==
  LET k == CountRun(0, "#") IN
  /\ k >= 1
  /\ FirstBr(k) > k
  /\ Only(k, FirstBr(k), B)

\* the scan has not ended, and the first token is a paragraph token holding
\* the line, '#' run included
HashTextToken ==
  /\ pc \notin {"panic", "nil", "done"}
  /\ emitted # <<>> =>
       /\ emitted[1].typ = "itemParagraph"
       /\ emitted[1].val = Slice(0, FirstBr(CountRun(0, "#")))

\* C16: lexBlock-based scanner, a first line that starts with a run of '#'
\* not followed by a space: lexAtxHeader falls back to paragraph scanning,
\* the scan goes on, and the next token is a paragraph token whose value is
\* the '#' run followed by the rest of the line.
C16_HashRunFallsBackToParagraph ==
  scanner = "block" /\ HashTextFirstLine({"a", "<"}) => HashTextToken

\* C16 holds of every such line whose text behind the '#' run is letters
C16_FallbackOfLetters ==
  scanner = "block" /\ HashTextFirstLine({"a"}) => HashTextToken

ExpectedNewline == <<"Expected newline at end of ATX header">>

\* C17: lexBlock-based scanner, a first line of '#', one space, any text and
\* "\r\n": the heading token's value is the whole text between the space and
\* the "\r\n", and the error token "Expected newline at end of ATX header"
\* is not sent for the line.
C17_HeaderLineWithBrHasNoError ==
  LET k == CountRun(0, "#")
      e == FirstBr(k + 1)
  IN scanner = "block" /\ k >= 1 /\ hp(k, <<" ">>) /\ e >= 0 =>
       /\ Len(emitted) >= 1 =>
            emitted[1].typ = HeaderTyp(k) /\ emitted[1].val = Slice(k + 1, e)
       /\ Len(emitted) >= 2 =>
            ~(emitted[2].typ = "itemError" /\ emitted[2].val = ExpectedNewline)

\* v is one marker character, '=' or '-', repeated, then spaces only
SetextUnderline(v) ==
  /\ v # <<>>
  /\ v[1] \in {"=", "-"}
  /\ \E n \in 1..Len(v) :
       /\ \A i \in 1..n : v[i] = v[1]
       /\ \A i \in (n + 1)..Len(v) : v[i] = " "

\* C18: lexText-based scanner: an itemSetTextHeader token is sent only for a
\* line made of one marker character repeated (all '=' or all '-'), with
\* trailing spaces at most; a line that mixes '=' and '-' or has spaces
\* between the marker characters is not committed as a setext header.
C18_SetextLineIsOneMarker ==
  scanner = "text" =>
    \A i \in 1..Len(emitted) :
      emitted[i].typ = "itemSetTextHeader" => SetextUnderline(emitted[i].val)

\* the end of the line at offset q
LineEnd(q) == IF FirstBr(q) >= 0 THEN FirstBr(q) ELSE Len(input)

\* the line at offset q starts with '=' or '-' and has a letter in it, so it
\* is no setext underline
StrayMarkerLineAt(q) ==
  /\ hp(q, <<"=">>) \/ hp(q, <<"-">>)
  /\ \E i \in (q + 1)..LineEnd(q) : input[i] = "a"

\* C19: lexBlock-based scanner: when lexParagraph meets a line that starts
\* with '=' or '-' (behind a hard break, or at entry behind the list marker
\* lexUl gave up on) and the line is no setext underline, the line becomes
\* paragraph text and the scan goes on: the producer does not reach the nil
\* state with the cursor still in that line.
C19_StrayMarkerLineIsText ==
  scanner = "block" =>
    \A q \in {1, Len(<<"a", "a">> \o hardBr)} :
      /\ q = 1 => hp(0, <<"-">>)
      /\ q > 1 => hp(0, <<"a", "a">> \o hardBr)
      /\ StrayMarkerLineAt(q)
      => (pc \in {"nil", "done"} => l.pos >= LineEnd(q))

\* C20: lexText-based scanner: a first line whose leading marker character
\* is followed by a letter, not by a space, and that ends with "\r\n" and is
\* no horizontal rule yields no itemUl token: its first token is a text token that starts with
\* the marker character.
C20_NoUlWithoutSpace ==
  scanner = "text" =>
    \A m \in {"-", "+", "*"} :
      hp(0, <<m, "a">>) /\ FirstBr(1) >= 0 /\ emitted # <<>> =>
        /\ emitted[1].typ = "itemText"
        /\ emitted[1].start = 0

\* C21: when the scan reaches the end of the input with pending text that
\* no line ending follows, the text is the value of a final paragraph or
\* text token and the end-of-stream token behind it has the empty value:
\* no itemEOF token carries text.
C21_EofTokenIsEmpty ==
  \A i \in 1..Len(emitted) :
    emitted[i].typ = "itemEOF" => emitted[i].val = <<>>

\* C22: Lex returns exactly the tokens it received from the channel: the
\* same tokens in the same order, as many as were received, with no
\* placeholder item added.
C22_LexReturnsTheTokens == cpc = "returned" => Returned = Sent

\* C23: lexText-based scanner: after the end-of-stream token has been handed
\* to the consumer, run closes the channel, the range loop of Lex ends and
\* Lex returns; the producer does not end the process with os.Exit while the
\* consumer has not returned.
C23_NoExitBeforeLexReturns ==
  scanner = "text" /\ pc = "exited" => cpc = "returned"

ExpectedHash == <<"Expected \"#\" at start of ATX header">>

\* C24: the error token "Expected "#" at start of ATX header" is never sent:
\* lexAtxHeader is entered only with the cursor in front of a '#', so the
\* count of acceptRun("#") is at least 1 and the case n = 0 is never taken.
C24_ExpectedHashUnreachable ==
  /\ \A i \in 1..Len(emitted) :
       ~(emitted[i].typ = "itemError" /\ emitted[i].val = ExpectedHash)
  /\ pc \in {"lexAtxHeader_block", "lexAtxHeader_text"} /\ at = 0 =>
       hp(l.pos, atxHeader) /\ CountRun(l.pos, "#") >= 1

\* lexAtxHeader has run on a second line "# " and has sent its heading
C24_Witness ==
  /\ hp(0, <<"a", "a">> \o br \o <<"#", " ">>)
  /\ Len(emitted) >= 3
  /\ emitted[3].typ = "itemH1"
  /\ pc \in {"lexBlock", "lexText", "lexAtxHeader_block"}

====
